---- MODULE Spec2Model ----
(***************************************************************************)
(* Exoplanet detection back ends: the model registry filled at start-up    *)
(* and the prediction handlers of backend/complete-backend-api.py,         *)
(* backend/backend2.py and backend/backend.py.                             *)
(*                                                                         *)
(* The trained artifacts are opaque. A classifier is modelled as a fixed   *)
(* deterministic function of the row it is given; a probability p is the   *)
(* integer 100000 * p (thousandths of a percent), a percentage rounded to  *)
(* two decimals is an integer number of hundredths of a percent.           *)
(***************************************************************************)
EXTENDS Integers, Sequences, FiniteSets, TLC

VARIABLES
  service,        \* which of the near-duplicate modules is the running process
  files,          \* the artifact files on disk, as start-up finds them
  phase,          \* "startup" while the module is imported, then "serving"
  xgb_model,      \* registry slot: tabular classifier
  cnn_model,      \* registry slot: sequence classifier
  scaler,         \* registry slot: scaler (xgb_scaler in backend.py, backend2.py)
  label_encoder,  \* registry slot: label encoder
  feature_names,  \* registry slot: trained feature-name list
  last,           \* the request handled last and the response it was given
  first           \* an earlier request and its response, kept for comparison

vars == <<service, files, phase, xgb_model, cnn_model, scaler, label_encoder,
          feature_names, last, first>>

slots == <<xgb_model, cnn_model, scaler, label_encoder, feature_names>>

(***************************************************************************)
(* Bounds of the model.                                                    *)
(***************************************************************************)
MaxFluxDelta == 1   \* flux lengths range over the expected width +/- this
MaxValue == 1       \* numeric feature values range over 1..MaxValue variants
MaxBatch == 2       \* observations in one batch request
MaxFeatures == 6    \* columns of a classifier whose importances are listed
MaxImportance == 2  \* an importance is one of 0..MaxImportance

(***************************************************************************)
(* Program constants and artifact contents.                                *)
(***************************************************************************)
None == "None"

\* len(flux_data) != 3197
FluxWidth == 3197

XGB_MODEL_PATH == "exoplanet_xgboost_model.json"
CNN_MODEL_PATH_KERAS == "best_model.h5"
CNN_MODEL_PATH_H5 == "exoplanet_cnn_model.h5"
SCALER_PATH == "exoplanet_final_scaler.pkl"
ENCODER_PATH == "exoplanet_final_label_encoder.pkl"
FEATURES_PATH == "exoplanet_final_features.pkl"

\* backend2.py: cnn_path, xgb_model_path, xgb_scaler_path
B2_CNN_PATH == "best_model.keras"
B2_XGB_PATH == "exoplanet_xgboost_model.json"
B2_SCALER_PATH == "exoplanet.pkl"

CompletePaths == {XGB_MODEL_PATH, CNN_MODEL_PATH_KERAS, CNN_MODEL_PATH_H5,
                  SCALER_PATH, ENCODER_PATH, FEATURES_PATH}
Backend2Paths == {B2_CNN_PATH, B2_XGB_PATH, B2_SCALER_PATH}

\* a file is absent, present and loadable, or present and not loadable
FileStates == {"absent", "ok", "corrupt"}

\* content of exoplanet_final_features.pkl: the Python list of the columns the
\* classifier was trained on; the scaler and the classifier are fitted on as many
TrainedFeatures == <<"koi_period", "koi_duration">>

\* content of the label encoder: classes_ (sorted, as LabelEncoder keeps them)
Classes == <<"CANDIDATE", "CONFIRMED", "FALSE POSITIVE">>

(***************************************************************************)
(* Start-up: load_models() of complete-backend-api.py. One try block       *)
(* around the five loads: the first load that raises ends the function.    *)
(***************************************************************************)
EmptyRegistry ==
  [xgb_model |-> None, cnn_model |-> None, scaler |-> None,
   label_encoder |-> None, feature_names |-> None]

\* xgb_model = xgb.XGBClassifier() is assigned before load_model() can raise
LoadXgb(r, d) ==
  IF d[XGB_MODEL_PATH] = "absent" THEN r
  ELSE [r EXCEPT !.xgb_model =
          IF d[XGB_MODEL_PATH] = "ok" THEN "fitted" ELSE "unfitted"]

CnnPath(d) ==
  IF d[CNN_MODEL_PATH_KERAS] # "absent" THEN CNN_MODEL_PATH_KERAS
  ELSE IF d[CNN_MODEL_PATH_H5] # "absent" THEN CNN_MODEL_PATH_H5
  ELSE None

LoadCnn(r, d) ==
  IF CnnPath(d) = None THEN r
  ELSE IF d[CnnPath(d)] = "ok" THEN [r EXCEPT !.cnn_model = "loaded"] ELSE r

CnnRaises(d) == CnnPath(d) # None /\ d[CnnPath(d)] = "corrupt"

load_models_result(d) ==
  LET r1 == LoadXgb(EmptyRegistry, d)
      e1 == d[XGB_MODEL_PATH] = "corrupt"
      r2 == IF e1 THEN r1 ELSE LoadCnn(r1, d)
      e2 == e1 \/ CnnRaises(d)
      r3 == IF e2 \/ d[SCALER_PATH] # "ok" THEN r2
            ELSE [r2 EXCEPT !.scaler = "loaded"]
      e3 == e2 \/ d[SCALER_PATH] = "corrupt"
      r4 == IF e3 \/ d[ENCODER_PATH] # "ok" THEN r3
            ELSE [r3 EXCEPT !.label_encoder = "loaded"]
      e4 == e3 \/ d[ENCODER_PATH] = "corrupt"
      r5 == IF e4 \/ d[FEATURES_PATH] # "ok" THEN r4
            ELSE [r4 EXCEPT !.feature_names = "loaded"]
  IN  r5

(***************************************************************************)
(* Start-up of backend2.py: one try block for the CNN, one for the         *)
(* XGBoost model and its scaler together.                                  *)
(***************************************************************************)
backend2_load_result(d) ==
  LET r1 == IF d[B2_CNN_PATH] = "ok"
            THEN [EmptyRegistry EXCEPT !.cnn_model = "loaded"] ELSE EmptyRegistry
      r2 == IF d[B2_XGB_PATH] = "absent" THEN r1
            ELSE [r1 EXCEPT !.xgb_model =
                    IF d[B2_XGB_PATH] = "ok" THEN "fitted" ELSE "unfitted"]
      r3 == IF d[B2_XGB_PATH] = "corrupt" \/ d[B2_SCALER_PATH] # "ok" THEN r2
            ELSE [r2 EXCEPT !.scaler = "loaded"]
  IN  r3

\* a mutant: the assignments of backend.py raise and the handlers of the except
\* clauses set the handles to None
BackendLoadFails == EmptyRegistry

\* backend.py assigns the three handles path strings; nothing can raise
backend_load_result ==
  [EmptyRegistry EXCEPT !.cnn_model = "path", !.xgb_model = "path", !.scaler = "path"]

Services == {"complete", "backend2", "backend"}

Disks(s) ==
  IF s = "complete" THEN [CompletePaths -> FileStates]
  ELSE IF s = "backend2" THEN [Backend2Paths -> FileStates]
  ELSE {<<>>}

LoadResult(s, d) ==
  IF s = "complete" THEN load_models_result(d)
  ELSE IF s = "backend2" THEN backend2_load_result(d)
  ELSE backend_load_result

NoCall == [endpoint |-> "none"]

SetRegistry(r) ==
  /\ xgb_model' = r.xgb_model
  /\ cnn_model' = r.cnn_model
  /\ scaler' = r.scaler
  /\ label_encoder' = r.label_encoder
  /\ feature_names' = r.feature_names

\* the module-level load that runs when the module is imported
load_models ==
  /\ phase = "startup"
  /\ service \in Services
  /\ SetRegistry(LoadResult(service, files))
  /\ phase' = "serving"
  /\ UNCHANGED <<service, files, last, first>>

InitLoad ==
  /\ service \in Services
  /\ files \in Disks(service)
  /\ phase = "startup"
  /\ xgb_model = None /\ cnn_model = None /\ scaler = None
  /\ label_encoder = None /\ feature_names = None
  /\ last = NoCall /\ first = NoCall

(***************************************************************************)
(* Requests.                                                               *)
(***************************************************************************)
\* A JSON feature mapping: its keys in insertion order, the variant v of its
\* numeric values, whether its values are non-numeric text instead, and the
\* length of the list under "flux_values" (-1: no such key).
ExtraKey == "description"
FluxKey == "flux_values"

Range(s) == {s[i] : i \in DOMAIN s}

\* key sequences: the trained features in any order, any subset, with or
\* without an untrained key at the end
TrainedOrders ==
  {<<>>}
    \cup {<<k>> : k \in Range(TrainedFeatures)}
    \cup {o \in Range(TrainedFeatures) \X Range(TrainedFeatures) : o[1] # o[2]}

KeySeqs == TrainedOrders \cup {Append(ks, ExtraKey) : ks \in TrainedOrders}

FluxLens == (FluxWidth - MaxFluxDelta)..(FluxWidth + MaxFluxDelta)

EmptyFeatures == [keys |-> <<>>, v |-> 1, text |-> FALSE, flux |-> -1]

TabularPayloads ==
  {[keys |-> ks, v |-> v, text |-> FALSE, flux |-> -1] :
      ks \in KeySeqs \ {<<>>}, v \in 1..MaxValue}
    \cup {[keys |-> ks, v |-> 1, text |-> TRUE, flux |-> -1] : ks \in KeySeqs \ {<<>>}}

FluxPayloads == {[keys |-> <<FluxKey>>, v |-> 1, text |-> FALSE, flux |-> n] : n \in FluxLens}

Payloads == {EmptyFeatures} \cup TabularPayloads \cup FluxPayloads

\* the "model" member of the body: absent, a string, or a JSON number
ModelAbsent == "<absent>"
ModelNumber == "<number>"
ModelValues == {ModelAbsent, ModelNumber, "xgboost", "cnn", "XGBoost", "random_forest"}

\* a request without a body and without a JSON content type: get_json() returns
\* None ("absent") or, from Flask 2.1 on, raises 415 Unsupported Media Type
\* ("unsupported"); which of the two depends on the installed Flask
NoBody == {"absent", "unsupported"}

\* the body as request.get_json() meets it: none, not parseable as JSON, a falsy
\* JSON value, a non-empty JSON array, or a JSON object
PredictRequests ==
  {[body |-> b, model |-> ModelAbsent, features |-> EmptyFeatures] :
      b \in NoBody \cup {"invalid", "empty", "array"}}
    \cup {[body |-> "object", model |-> m, features |-> f] :
            m \in ModelValues, f \in Payloads}

(***************************************************************************)
(* Responses: the HTTP status and the members of the JSON body.            *)
(***************************************************************************)
NoProbabilities == [l \in {} |-> 0]

Response(status, fields) ==
  [status |-> status, fields |-> DOMAIN fields,
   error |-> IF "error" \in DOMAIN fields THEN fields.error ELSE None,
   missing |-> IF "missing" \in DOMAIN fields THEN fields.missing ELSE <<>>,
   classification |-> IF "classification" \in DOMAIN fields
                      THEN fields.classification ELSE None,
   confidence |-> IF "confidence" \in DOMAIN fields THEN fields.confidence ELSE -1,
   probabilities |-> IF "probabilities" \in DOMAIN fields
                     THEN fields.probabilities ELSE NoProbabilities,
   model_used |-> IF "model_used" \in DOMAIN fields THEN fields.model_used ELSE None,
   predictions |-> IF "predictions" \in DOMAIN fields THEN fields.predictions ELSE <<>>,
   total |-> IF "total" \in DOMAIN fields THEN fields.total ELSE -1,
   stated |-> IF "stated" \in DOMAIN fields THEN fields.stated ELSE <<>>]

Error(status, msg) == Response(status, [error |-> msg])

\* a 200 answer kept whole: the member names of the JSON body and the body
Ok(body) == [status |-> 200, fields |-> DOMAIN body, body |-> body]

\* the HTML page Flask itself answers with when an exception leaves a view of
\* an application that registers no error handler: a body without JSON members
HtmlPage(status) == Response(status, NoProbabilities)

\* an error whose message interpolates numbers: `stated` lists them in order
ErrorStating(status, msg, numbers) == Response(status, [error |-> msg, stated |-> numbers])

(***************************************************************************)
(* The opaque artifacts.                                                   *)
(***************************************************************************)
\* str.lower()
Lower(s) ==
  IF s = "XGBoost" THEN "xgboost"
  ELSE IF s = "CNN" THEN "cnn"
  ELSE s

\* str(i) of a class index (0-based)
Str(i) == <<"0", "1", "2", "3">>[i + 1]

KeyIndex(k) ==
  IF k \in Range(TrainedFeatures)
  THEN CHOOSE i \in DOMAIN TrainedFeatures : TrainedFeatures[i] = k
  ELSE 0

\* the number a payload carries under a key
Value(f, k) == 10 * KeyIndex(k) + f.v

\* a column holds a number unless the payload is text or the column is the flux list
NumericColumn(f, k) == ~f.text /\ k # FluxKey

\* scaler.transform: column-wise standardisation with the fitted means
ScalerMean == <<7, 3>>
ScalerTransform(row) == [i \in DOMAIN row |-> row[i] - ScalerMean[i]]

\* predict_proba of the tabular classifier: one distribution per row
ProbaTable ==
  << <<91234, 8000, 766>>, <<33335, 33335, 33330>>, <<5, 99990, 5>>,
     <<0, 12345, 87655>>, <<50000, 50000, 0>> >>

RECURSIVE WeightedSum(_, _)
WeightedSum(row, i) ==
  IF i > Len(row) THEN 0 ELSE i * row[i] + WeightedSum(row, i + 1)

XgbPredictProba(row) == ProbaTable[(WeightedSum(row, 1) % Len(ProbaTable)) + 1]

\* np.argmax: the first index (0-based) of the largest entry
ArgMax(p) ==
  (CHOOSE i \in DOMAIN p :
     /\ \A j \in DOMAIN p : p[j] <= p[i]
     /\ \A j \in DOMAIN p : j < i => p[j] < p[i]) - 1

\* XGBClassifier.predict: the class of largest probability
XgbPredict(row) == ArgMax(XgbPredictProba(row))

\* cnn_model.predict(flux)[0] for a flux series of the trained width
CnnPredict(flux) == <<27315, 72685>>

\* round(x, 2) of a percentage held in 1/1000 of a percent: hundredths of a
\* percent, ties to even
Round2(x) ==
  LET q == x \div 10
      r == x % 10
  IN  IF r > 5 \/ (r = 5 /\ q % 2 = 1) THEN q + 1 ELSE q

(***************************************************************************)
(* POST /api/predict: predict_single() of complete-backend-api.py.         *)
(***************************************************************************)
Registry ==
  [xgb_model |-> xgb_model, cnn_model |-> cnn_model, scaler |-> scaler,
   label_encoder |-> label_encoder, feature_names |-> feature_names]

\* list(s) of a set: its members once each, in some order
RECURSIVE ListOf(_)
ListOf(S) ==
  IF S = {} THEN <<>>
  ELSE LET x == CHOOSE y \in S : TRUE IN <<x>> \o ListOf(S \ {x})

\* a mutant: reports only one of the missing keys
FirstMissingOnly(names, columns) ==
  LET m == Range(names) \ Range(columns)
  IN  IF m = {} THEN {} ELSE {CHOOSE k \in m : TRUE}

\* missing_features = set(feature_names) - set(df.columns)
MissingFeatures(names, columns) == Range(names) \ Range(columns)

\* the single row of df, column by column
Row(f, columns) == [i \in DOMAIN columns |-> Value(f, columns[i])]

AllNumeric(f, columns) == \A i \in DOMAIN columns : NumericColumn(f, columns[i])

\* scaler.transform(df) raises on a non-numeric cell or a wrong number of columns
ScalerRaises(f, columns) ==
  ~AllNumeric(f, columns) \/ Len(columns) # Len(ScalerMean)

\* xgb_model.predict(...) raises on an unfitted classifier, a non-numeric cell
\* or a row of another width than the classifier was trained on
XgbRaises(model, f, columns) ==
  \/ model # "fitted"
  \/ ~AllNumeric(f, columns)
  \/ Len(columns) # Len(TrainedFeatures)

\* cnn_model.predict(...) raises on a series of another length than the input width
CnnRaises500(flux) == flux # FluxWidth

\* a mutant: the confidence is left unrounded
ConfidenceUnrounded(probabilities, prediction) == probabilities[prediction + 1]

\* round(float(probabilities[prediction]) * 100, 2)
Confidence(probabilities, prediction) == Round2(probabilities[prediction + 1])

\* a mutant: the label encoder is never consulted
LabelAlwaysIndex(encoder, i) == Str(i)

\* label_encoder.classes_[i] if label_encoder else str(i)
LabelOf(encoder, i) == IF encoder # None THEN Classes[i + 1] ELSE Str(i)

\* the dict comprehension over enumerate(probabilities)
ProbabilityMap(encoder, probabilities) ==
  [l \in {LabelOf(encoder, i - 1) : i \in DOMAIN probabilities} |->
     Round2(probabilities[CHOOSE i \in DOMAIN probabilities : LabelOf(encoder, i - 1) = l])]

\* lines 204-224: label, confidence, response
Labelled(reg, model_type, prediction, probabilities) ==
  IF reg.label_encoder # None
     /\ (prediction + 1 > Len(Classes) \/ Len(probabilities) > Len(Classes))
  THEN Error(500, "label index out of range")
  ELSE Response(200,
         [classification |-> LabelOf(reg.label_encoder, prediction),
          confidence |-> Confidence(probabilities, prediction),
          probabilities |-> ProbabilityMap(reg.label_encoder, probabilities),
          model_used |-> model_type])

\* the library calls a handler makes while it handles one request, in order; a
\* call that raises is made, a method looked up on None or on a str is not
DataFrameCall == "pd.DataFrame"
ReadCsvCall == "pd.read_csv"
ArrayCall == "np.array"
TransformCall == "scaler.transform"
PredictCall == "xgb_model.predict"
PredictProbaCall == "xgb_model.predict_proba"
CnnPredictCall == "cnn_model.predict"

ParseCalls == {DataFrameCall, ReadCsvCall, ArrayCall}
InferenceCalls == {PredictCall, PredictProbaCall, CnnPredictCall}

\* lines 161-169: df = df[feature_names] only under `if feature_names:`;
\* otherwise df keeps the columns of the request, in the order of its keys
Columns(f, reg) == IF reg.feature_names # None THEN TrainedFeatures ELSE f.keys

\* a mutant: the tabular branch refuses to work without a scaler
PredictXgboostScalerRequired(f, reg) ==
  IF reg.xgb_model = None \/ reg.scaler = None
  THEN Error(500, "XGBoost model or scaler is not loaded.")
  ELSE IF reg.feature_names # None /\ MissingFeatures(TrainedFeatures, f.keys) # {}
  THEN Response(400, [error |-> "Missing required features",
                      missing |-> ListOf(MissingFeatures(TrainedFeatures, f.keys))])
  ELSE IF ScalerRaises(f, Columns(f, reg)) THEN Error(500, "scaler.transform raised")
  ELSE IF XgbRaises(reg.xgb_model, f, Columns(f, reg))
  THEN Error(500, "xgb_model.predict raised")
  ELSE Labelled(reg, "xgboost",
                XgbPredict(ScalerTransform(Row(f, Columns(f, reg)))),
                XgbPredictProba(ScalerTransform(Row(f, Columns(f, reg)))))

\* lines 156-179
PredictXgboost(f, reg) ==
  IF reg.xgb_model = None THEN Error(500, "XGBoost model not loaded")
  ELSE
    LET names == TrainedFeatures
        checked == reg.feature_names # None
        missing_features == MissingFeatures(names, f.keys)
        columns == Columns(f, reg)
        raw == Row(f, columns)
    IN  IF checked /\ missing_features # {}
        THEN Response(400, [error |-> "Missing required features",
                            missing |-> ListOf(missing_features)])
        ELSE IF reg.scaler # None /\ ScalerRaises(f, columns)
        THEN Error(500, "scaler.transform raised")
        ELSE IF XgbRaises(reg.xgb_model, f, columns)
        THEN Error(500, "xgb_model.predict raised")
        ELSE LET df_scaled == IF reg.scaler # None THEN ScalerTransform(raw) ELSE raw
             IN  Labelled(reg, "xgboost", XgbPredict(df_scaled), XgbPredictProba(df_scaled))

\* lines 156-179, the calls
PredictXgboostCalls(f, reg) ==
  IF reg.xgb_model = None THEN <<>>
  ELSE
    LET columns == Columns(f, reg)
        scaled == IF reg.scaler # None THEN <<TransformCall>> ELSE <<>>
    IN  IF reg.feature_names # None /\ MissingFeatures(TrainedFeatures, f.keys) # {}
        THEN <<>>
        ELSE IF reg.scaler # None /\ ScalerRaises(f, columns) THEN scaled
        ELSE IF XgbRaises(reg.xgb_model, f, columns) THEN scaled \o <<PredictCall>>
        ELSE scaled \o <<PredictCall, PredictProbaCall>>

\* lines 182-199
PredictCnn(f, reg) ==
  IF reg.cnn_model = None THEN Error(500, "CNN model not loaded")
  ELSE IF FluxKey \notin Range(f.keys)
  THEN Error(400, "CNN requires flux_values array (time series data)")
  ELSE IF CnnRaises500(f.flux) THEN Error(500, "cnn_model.predict raised")
  ELSE Labelled(reg, "cnn", ArgMax(CnnPredict(f.flux)), CnnPredict(f.flux))

\* lines 182-199, the calls
PredictCnnCalls(f, reg) ==
  IF reg.cnn_model = None \/ FluxKey \notin Range(f.keys) THEN <<>>
  ELSE <<ArrayCall, CnnPredictCall>>

\* lines 156, 182, 201-202: if / elif / else on model_type
Dispatch(model_type, features, reg) ==
  IF model_type = "xgboost" THEN PredictXgboost(features, reg)
  ELSE IF model_type = "cnn" THEN PredictCnn(features, reg)
  ELSE Error(400, "Invalid model type")

\* lines 140-227
PredictSingle(req, reg) ==
  IF req.body = "invalid" THEN Error(500, "400 Bad Request")
  ELSE IF req.body = "unsupported" THEN Error(500, "415 Unsupported Media Type")
  ELSE IF req.body \in {"absent", "empty"} THEN Error(400, "No data provided")
  ELSE IF req.body = "array" THEN Error(500, "'list' object has no attribute 'get'")
  ELSE IF req.model = ModelNumber THEN Error(500, "'int' object has no attribute 'lower'")
  ELSE
    LET model_type == Lower(IF req.model = ModelAbsent THEN "xgboost" ELSE req.model)
        features == req.features
    IN  IF features.keys = <<>> THEN Error(400, "No features provided")
        ELSE Dispatch(model_type, features, reg)

\* lines 140-199, the calls: df = pd.DataFrame([features]) comes before the
\* branch on model_type
PredictSingleCalls(req, reg) ==
  IF req.body # "object" \/ req.model = ModelNumber \/ req.features.keys = <<>> THEN <<>>
  ELSE
    LET model_type == Lower(IF req.model = ModelAbsent THEN "xgboost" ELSE req.model)
    IN  <<DataFrameCall>> \o
          (IF model_type = "xgboost" THEN PredictXgboostCalls(req.features, reg)
           ELSE IF model_type = "cnn" THEN PredictCnnCalls(req.features, reg)
           ELSE <<>>)

\* a mutant: the handler clears the scaler slot it has used
HandlerDropsScaler ==
  /\ scaler' = None
  /\ UNCHANGED <<xgb_model, cnn_model, label_encoder, feature_names>>

\* a mutant: the handler rebinds the classifier slot
HandlerClearsClassifier ==
  /\ xgb_model' = None
  /\ UNCHANGED <<cnn_model, scaler, label_encoder, feature_names>>

\* no handler declares the registry globals: it can only read them
HandlerKeepsRegistry == UNCHANGED slots

predict_single(req) ==
  /\ phase = "serving"
  /\ service = "complete"
  /\ last' = [endpoint |-> "/api/predict", req |-> req, resp |-> PredictSingle(req, Registry),
              calls |-> PredictSingleCalls(req, Registry)]
  /\ HandlerKeepsRegistry
  /\ UNCHANGED <<service, files, phase>>

(***************************************************************************)
(* POST /api/predict/batch: predict_batch() of complete-backend-api.py.    *)
(***************************************************************************)
\* observations a batch is made of: a complete row, a row with a key missing
BatchItems ==
  {[keys |-> TrainedFeatures, v |-> 1, text |-> FALSE, flux |-> -1],
   [keys |-> <<TrainedFeatures[1]>>, v |-> 1, text |-> FALSE, flux |-> -1]}

BatchData == UNION {[1..n -> BatchItems] : n \in 0..MaxBatch}

BatchRequests ==
  {[body |-> b, model |-> ModelAbsent, data |-> <<>>] : b \in {"invalid", "empty", "array"}}
    \cup {[body |-> "object", model |-> m, data |-> d] : m \in ModelValues, d \in BatchData}

\* @app.route registers the view and returns it unchanged: the function object
\* predict_single has no attribute __wrapped__
HasWrapped == FALSE

\* line 260: predict_single.__wrapped__(obs, model_type)
BatchItem(obs, model_type, reg) ==
  PredictSingle([body |-> "object", model |-> model_type, features |-> obs], reg)

\* lines 244-271
PredictBatch(req, reg) ==
  IF req.body = "invalid" THEN Error(500, "400 Bad Request")
  ELSE IF req.body = "empty" THEN Error(400, "No data provided")
  ELSE IF req.body = "array" THEN Error(500, "'list' object has no attribute 'get'")
  ELSE IF req.model = ModelNumber THEN Error(500, "'int' object has no attribute 'lower'")
  ELSE
    LET model_type == Lower(IF req.model = ModelAbsent THEN "xgboost" ELSE req.model)
        observations == req.data
    IN  IF observations = <<>> THEN Error(400, "No observations provided")
        ELSE IF ~HasWrapped
        THEN Error(500, "'function' object has no attribute '__wrapped__'")
        ELSE Response(200,
               [predictions |-> [i \in DOMAIN observations |->
                                   BatchItem(observations[i], model_type, reg)],
                total |-> Len(observations),
                model_used |-> model_type])

predict_batch(req) ==
  /\ phase = "serving"
  /\ service = "complete"
  /\ last' = [endpoint |-> "/api/predict/batch", req |-> req,
              resp |-> PredictBatch(req, Registry)]
  /\ HandlerKeepsRegistry
  /\ UNCHANGED <<service, files, phase>>

(***************************************************************************)
(* POST /predict/flux of backend2.py and of backend.py.                    *)
(***************************************************************************)
\* the body (here "empty" is JSON null, {} is an object without the key), the
\* length of the flat list under "flux_data" (-1: no such key), and whether the
\* list holds text instead of numbers
FluxRequests ==
  {[body |-> b, flux |-> -1, text |-> FALSE] :
      b \in NoBody \cup {"invalid", "empty", "array"}}
    \cup {[body |-> "object", flux |-> n, text |-> FALSE] : n \in {-1, 0} \cup FluxLens}
    \cup {[body |-> "object", flux |-> n, text |-> TRUE] : n \in FluxLens}

\* a mutant: only a series that is too short is turned away
FluxLengthAtLeast(n) == n >= FluxWidth

\* len(flux_data) != 3197 is rejected
FluxLengthOk(n) == n = FluxWidth

\* backend2.py lines 69-90: everything after the model test is inside one try
\* whose handler answers 400; cnn_model.predict raises on a series of text
Backend2PredictFlux(req, reg) ==
  IF reg.cnn_model = None THEN Error(500, "CNN model is not loaded.")
  ELSE IF req.body = "invalid" THEN Error(400, "400 Bad Request")
  ELSE IF req.body = "unsupported" THEN Error(400, "415 Unsupported Media Type")
  ELSE IF req.body \in {"absent", "empty"}
  THEN Error(400, "'NoneType' object is not subscriptable")
  ELSE IF req.body = "array" THEN Error(400, "list indices must be integers or slices, not str")
  ELSE IF req.flux = -1 THEN Error(400, "'flux_data'")
  ELSE IF ~FluxLengthOk(req.flux)
  THEN ErrorStating(400, "Invalid input: Expected {} flux values, got {}.",
                    <<FluxWidth, req.flux>>)
  ELSE IF req.text THEN Error(400, "cnn_model.predict raised")
  ELSE Response(200, [model_used |-> "CNN Flux Model", classification |-> "Exoplanet",
                      confidence |-> 72685])

\* backend.py lines 57-96: get_json() and the key test are outside the try block,
\* so what they raise leaves the view; cnn_model is a path string, so
\* cnn_model.predict is an AttributeError
BackendPredictFlux(req, reg) ==
  IF reg.cnn_model = None THEN Error(500, "CNN model is not loaded.")
  ELSE IF req.body = "invalid" THEN HtmlPage(400)
  ELSE IF req.body = "unsupported" THEN HtmlPage(415)
  ELSE IF req.body \in {"absent", "empty"} THEN HtmlPage(500)
  ELSE IF req.body = "array" \/ req.flux = -1
  THEN Error(400, "Request must contain 'flux_data' key.")
  ELSE IF ~FluxLengthOk(req.flux)
  THEN ErrorStating(400, "Expected a 1D array of {} flux values, but got shape ({},)",
                    <<FluxWidth, req.flux>>)
  ELSE IF reg.cnn_model = "path"
  THEN Error(500, "Error during prediction: 'str' object has no attribute 'predict'")
  ELSE IF req.text THEN Error(500, "Error during prediction: cnn_model.predict raised")
  ELSE Response(200, [model_used |-> "CNN (Flux Data)", classification |-> "Exoplanet",
                      confidence |-> 72685])

\* backend2.py lines 69-90, the calls
Backend2PredictFluxCalls(req, reg) ==
  IF reg.cnn_model = None \/ req.body # "object" \/ req.flux = -1 \/ ~FluxLengthOk(req.flux)
  THEN <<>>
  ELSE <<ArrayCall, CnnPredictCall>>

\* backend.py lines 57-96, the calls: np.array(...) precedes the length test
BackendPredictFluxCalls(req, reg) ==
  IF reg.cnn_model = None \/ req.body # "object" \/ req.flux = -1 THEN <<>>
  ELSE IF ~FluxLengthOk(req.flux) \/ reg.cnn_model = "path" THEN <<ArrayCall>>
  ELSE <<ArrayCall, CnnPredictCall>>

predict_flux(req) ==
  /\ phase = "serving"
  /\ service \in {"backend2", "backend"}
  /\ last' = [endpoint |-> "/predict/flux", req |-> req,
              resp |-> IF service = "backend2" THEN Backend2PredictFlux(req, Registry)
                       ELSE BackendPredictFlux(req, Registry),
              calls |-> IF service = "backend2" THEN Backend2PredictFluxCalls(req, Registry)
                        ELSE BackendPredictFluxCalls(req, Registry)]
  /\ HandlerKeepsRegistry
  /\ UNCHANGED <<service, files, phase>>

(***************************************************************************)
(* POST /predict/features of backend2.py and of backend.py.                *)
(***************************************************************************)
\* XGB_FEATURE_ORDER, cut to the columns the modelled classifier is trained on
XGB_FEATURE_ORDER == TrainedFeatures

\* the body is the flat feature mapping itself
FeatureRequests ==
  {[body |-> b, features |-> EmptyFeatures] : b \in {"invalid", "empty", "array"}}
    \cup {[body |-> "object", features |-> f] : f \in {EmptyFeatures} \cup TabularPayloads}

\* 'Exoplanet' if int(prediction) == 1 else 'Not an Exoplanet'
BinaryLabel(prediction) == IF prediction = 1 THEN "Exoplanet" ELSE "Not an Exoplanet"

\* backend2.py lines 122-138: pd.DataFrame([data])[XGB_FEATURE_ORDER] raises
\* KeyError for a body that is null, a list, or an object lacking a key
Backend2PredictFeatures(req, reg) ==
  IF reg.xgb_model = None \/ reg.scaler = None
  THEN Error(500, "XGBoost model or scaler is not loaded.")
  ELSE IF req.body = "invalid" THEN Error(400, "400 Bad Request")
  ELSE IF req.body # "object" \/ MissingFeatures(XGB_FEATURE_ORDER, req.features.keys) # {}
  THEN Error(400, "Missing feature in request")
  ELSE IF ~AllNumeric(req.features, XGB_FEATURE_ORDER)
  THEN Error(400, "scaler.transform raised")
  ELSE IF reg.xgb_model # "fitted" THEN Error(400, "xgb_model.predict raised")
  ELSE Response(200,
         [model_used |-> "XGBoost Feature Model",
          classification |->
            BinaryLabel(XgbPredict(ScalerTransform(Row(req.features, XGB_FEATURE_ORDER))))])

Backend2PredictFeaturesCalls(req, reg) ==
  IF reg.xgb_model = None \/ reg.scaler = None \/ req.body = "invalid" THEN <<>>
  ELSE IF req.body # "object" \/ MissingFeatures(XGB_FEATURE_ORDER, req.features.keys) # {}
  THEN <<DataFrameCall>>
  ELSE IF ~AllNumeric(req.features, XGB_FEATURE_ORDER)
  THEN <<DataFrameCall, TransformCall>>
  ELSE <<DataFrameCall, TransformCall, PredictCall>>

\* backend.py lines 105-134: get_json() is outside the try blocks; xgb_scaler
\* is a path string, so xgb_scaler.transform is an AttributeError
BackendPredictFeatures(req, reg) ==
  IF reg.xgb_model = None \/ reg.scaler = None
  THEN Error(500, "XGBoost model or scaler is not loaded.")
  ELSE IF req.body = "invalid" THEN HtmlPage(400)
  ELSE IF req.body # "object" \/ MissingFeatures(XGB_FEATURE_ORDER, req.features.keys) # {}
  THEN Error(400, "Missing feature in request")
  ELSE IF reg.scaler = "path"
  THEN Error(500, "Error during preprocessing: 'str' object has no attribute 'transform'")
  ELSE IF ~AllNumeric(req.features, XGB_FEATURE_ORDER)
  THEN Error(500, "Error during preprocessing: scaler.transform raised")
  ELSE IF reg.xgb_model # "fitted"
  THEN Error(500, "Error during prediction: xgb_model.predict raised")
  ELSE Response(200,
         [model_used |-> "XGBoost (Tabular Features)",
          classification |->
            BinaryLabel(XgbPredict(ScalerTransform(Row(req.features, XGB_FEATURE_ORDER))))])

BackendPredictFeaturesCalls(req, reg) ==
  IF reg.xgb_model = None \/ reg.scaler = None \/ req.body = "invalid" THEN <<>>
  ELSE IF req.body # "object" \/ MissingFeatures(XGB_FEATURE_ORDER, req.features.keys) # {}
          \/ reg.scaler = "path"
  THEN <<DataFrameCall>>
  ELSE IF ~AllNumeric(req.features, XGB_FEATURE_ORDER)
  THEN <<DataFrameCall, TransformCall>>
  ELSE <<DataFrameCall, TransformCall, PredictCall>>

predict_features(req) ==
  /\ phase = "serving"
  /\ service \in {"backend2", "backend"}
  /\ last' = [endpoint |-> "/predict/features", req |-> req,
              resp |-> IF service = "backend2" THEN Backend2PredictFeatures(req, Registry)
                       ELSE BackendPredictFeatures(req, Registry),
              calls |-> IF service = "backend2" THEN Backend2PredictFeaturesCalls(req, Registry)
                        ELSE BackendPredictFeaturesCalls(req, Registry)]
  /\ HandlerKeepsRegistry
  /\ UNCHANGED <<service, files, phase>>

(***************************************************************************)
(* POST /predict/flux/csv and POST /predict/features/csv of backend2.py.   *)
(***************************************************************************)
\* the upload: no 'file' part, a part with an empty filename, a file that is
\* not named *.csv, or a *.csv file whose bytes are not UTF-8, are empty, or
\* hold a table
NoTable == {"absent", "unnamed", "txt", "undecodable", "empty"}

\* a headerless table of `rows` flux series, each `width` long
FluxCsvRequests ==
  {[file |-> k, rows |-> 0, width |-> 0, text |-> FALSE] : k \in NoTable}
    \cup {[file |-> "table", rows |-> n, width |-> w, text |-> t] :
            n \in 1..MaxBatch, w \in FluxLens, t \in BOOLEAN}

\* a table with a header line and `rows` rows of one and the same values
FeatureCsvRequests ==
  {[file |-> k, rows |-> 0, features |-> EmptyFeatures] : k \in NoTable}
    \cup {[file |-> "table", rows |-> n, features |-> f] :
            n \in 0..MaxBatch, f \in TabularPayloads}

\* lines 94-99 and 117 (142-147 and 167): the answers given before the try block
UploadRejected(req) ==
  IF req.file = "absent" THEN Error(400, "No file part in the request")
  ELSE IF req.file = "unnamed" THEN Error(400, "No file selected")
  ELSE Error(400, "Invalid file type. Please upload a CSV.")

\* lines 92-117: no test of cnn_model
Backend2PredictFluxCsv(req, reg) ==
  IF req.file \in {"absent", "unnamed", "txt"} THEN UploadRejected(req)
  ELSE IF req.file = "undecodable"
  THEN Error(500, "Error processing CSV file: 'utf-8' codec can't decode")
  ELSE IF req.file = "empty"
  THEN Error(500, "Error processing CSV file: No columns to parse from file")
  ELSE IF reg.cnn_model = None
  THEN Error(500, "Error processing CSV file: 'NoneType' object has no attribute 'predict'")
  ELSE IF req.text \/ req.width # FluxWidth
  THEN Error(500, "Error processing CSV file: cnn_model.predict raised")
  ELSE Ok([model_used |-> "CNN Flux Model",
           number_of_samples |-> req.rows,
           predictions |-> [i \in 1..req.rows |-> "Exoplanet"]])

Backend2PredictFluxCsvCalls(req, reg) ==
  IF req.file \in {"absent", "unnamed", "txt", "undecodable"} THEN <<>>
  ELSE IF req.file = "empty" \/ reg.cnn_model = None THEN <<ReadCsvCall>>
  ELSE <<ReadCsvCall, CnnPredictCall>>

predict_flux_csv(req) ==
  /\ phase = "serving"
  /\ service = "backend2"
  /\ last' = [endpoint |-> "/predict/flux/csv", req |-> req,
              resp |-> Backend2PredictFluxCsv(req, Registry),
              calls |-> Backend2PredictFluxCsvCalls(req, Registry)]
  /\ HandlerKeepsRegistry
  /\ UNCHANGED <<service, files, phase>>

\* lines 140-167: no test of xgb_model or xgb_scaler
Backend2PredictFeaturesCsv(req, reg) ==
  IF req.file \in {"absent", "unnamed", "txt"} THEN UploadRejected(req)
  ELSE IF req.file = "undecodable"
  THEN Error(500, "Error processing CSV file: 'utf-8' codec can't decode")
  ELSE IF req.file = "empty"
  THEN Error(500, "Error processing CSV file: No columns to parse from file")
  ELSE IF MissingFeatures(XGB_FEATURE_ORDER, req.features.keys) # {}
  THEN Error(500, "Error processing CSV file: not in index")
  ELSE IF reg.scaler = None
  THEN Error(500, "Error processing CSV file: 'NoneType' object has no attribute 'transform'")
  ELSE IF req.rows = 0 \/ ~AllNumeric(req.features, XGB_FEATURE_ORDER)
  THEN Error(500, "Error processing CSV file: scaler.transform raised")
  ELSE IF reg.xgb_model = None
  THEN Error(500, "Error processing CSV file: 'NoneType' object has no attribute 'predict'")
  ELSE IF reg.xgb_model # "fitted"
  THEN Error(500, "Error processing CSV file: xgb_model.predict raised")
  ELSE Ok([model_used |-> "XGBoost Feature Model",
           number_of_samples |-> req.rows,
           predictions |->
             [i \in 1..req.rows |->
                BinaryLabel(XgbPredict(ScalerTransform(Row(req.features, XGB_FEATURE_ORDER))))]])

Backend2PredictFeaturesCsvCalls(req, reg) ==
  IF req.file \in {"absent", "unnamed", "txt", "undecodable"} THEN <<>>
  ELSE IF req.file = "empty"
          \/ MissingFeatures(XGB_FEATURE_ORDER, req.features.keys) # {}
          \/ reg.scaler = None
  THEN <<ReadCsvCall>>
  ELSE IF req.rows = 0 \/ ~AllNumeric(req.features, XGB_FEATURE_ORDER) \/ reg.xgb_model = None
  THEN <<ReadCsvCall, TransformCall>>
  ELSE <<ReadCsvCall, TransformCall, PredictCall>>

predict_features_csv(req) ==
  /\ phase = "serving"
  /\ service = "backend2"
  /\ last' = [endpoint |-> "/predict/features/csv", req |-> req,
              resp |-> Backend2PredictFeaturesCsv(req, Registry),
              calls |-> Backend2PredictFeaturesCsvCalls(req, Registry)]
  /\ HandlerKeepsRegistry
  /\ UNCHANGED <<service, files, phase>>

(***************************************************************************)
(* The GET handlers of complete-backend-api.py.                            *)
(***************************************************************************)
\* a mutant: every flag is reported true
HealthCheckAllLoaded(reg) ==
  Ok([status |-> "healthy", xgb_loaded |-> TRUE, cnn_loaded |-> TRUE,
      scaler_loaded |-> TRUE, timestamp |-> "now"])

\* lines 93-99; the timestamp is the wall clock and is not modelled as a value
HealthCheck(reg) ==
  Ok([status |-> "healthy",
      xgb_loaded |-> reg.xgb_model # None,
      cnn_loaded |-> reg.cnn_model # None,
      scaler_loaded |-> reg.scaler # None,
      timestamp |-> "now"])

health_check ==
  /\ phase = "serving"
  /\ service = "complete"
  /\ last' = [endpoint |-> "/health", resp |-> HealthCheck(Registry)]
  /\ HandlerKeepsRegistry
  /\ UNCHANGED <<service, files, phase>>

\* lines 105-122
ModelInfo(reg) ==
  Ok([models |-> [xgboost |-> [available |-> reg.xgb_model # None],
                  cnn |-> [available |-> reg.cnn_model # None]],
      features |-> IF reg.feature_names # None THEN TrainedFeatures ELSE <<>>,
      classes |-> IF reg.label_encoder # None THEN Classes ELSE <<>>])

model_info ==
  /\ phase = "serving"
  /\ service = "complete"
  /\ last' = [endpoint |-> "/api/models/info", resp |-> ModelInfo(Registry)]
  /\ HandlerKeepsRegistry
  /\ UNCHANGED <<service, files, phase>>

\* lines 278-303 and 339-375: literals, the registry is not read
StaticBody(names) == Ok([n \in names |-> "literal"])

get_stats ==
  /\ phase = "serving"
  /\ service = "complete"
  /\ last' = [endpoint |-> "/api/stats",
              resp |-> StaticBody({"xgboost", "cnn", "dataset"})]
  /\ HandlerKeepsRegistry
  /\ UNCHANGED <<service, files, phase>>

get_examples ==
  /\ phase = "serving"
  /\ service = "complete"
  /\ last' = [endpoint |-> "/api/examples",
              resp |-> StaticBody({"confirmed_exoplanet", "false_positive", "candidate"})]
  /\ HandlerKeepsRegistry
  /\ UNCHANGED <<service, files, phase>>

\* xgb_model.feature_importances_ of the fitted classifier, in percent, one
\* entry per trained column
FeatureImportances == <<30, 70>>

\* f'feature_{i}'
FeatureI(i) ==
  <<"feature_0", "feature_1", "feature_2", "feature_3", "feature_4", "feature_5",
    "feature_6", "feature_7", "feature_8">>[i + 1]

\* sorted(pairs, key=lambda x: x[1], reverse=True): descending, and stable
InsertDesc(x, s) ==
  LET k == Cardinality({i \in DOMAIN s : s[i][2] > x[2]})
  IN  SubSeq(s, 1, k) \o <<x>> \o SubSeq(s, k + 1, Len(s))

RECURSIVE SortedDesc(_)
SortedDesc(pairs) ==
  IF pairs = <<>> THEN <<>>
  ELSE InsertDesc(Head(pairs), SortedDesc(Tail(pairs)))

\* zip(features, importances): as long as the shorter of the two
Zip(a, b) ==
  [i \in 1..(IF Len(a) < Len(b) THEN Len(a) ELSE Len(b)) |-> <<a[i], b[i]>>]

\* a mutant: the slice takes the items from the end
LastItems(items, n) ==
  SubSeq(items, (IF Len(items) < n THEN 0 ELSE Len(items) - n) + 1, Len(items))

\* list(importance_dict.items())[:5]
TopN == 5
FirstItems(items, n) == SubSeq(items, 1, IF Len(items) < n THEN Len(items) ELSE n)

\* what reading xgb_model.feature_importances_ gives. On a classifier object
\* whose load_model() failed it depends on the installed xgboost: the read
\* raises, or it returns an array without entries
ImportancesOf(model) ==
  IF model = "fitted" THEN {[raises |-> FALSE, value |-> FeatureImportances]}
  ELSE {[raises |-> TRUE, value |-> <<>>], [raises |-> FALSE, value |-> <<>>]}

\* a mutant: the test of the classifier slot is left out
FeatureImportanceUnguarded(reg, got) ==
  Ok([importance |-> SortedDesc(Zip(TrainedFeatures, got.value)),
      top_5 |-> FirstItems(SortedDesc(Zip(TrainedFeatures, got.value)), TopN)])

\* lines 310-332, for a feature-name list holding `names`: a dict is modelled
\* as the sequence of its items in insertion order
FeatureImportanceOf(reg, got, names) ==
  IF reg.xgb_model = None THEN Error(500, "XGBoost model not loaded")
  ELSE IF got.raises THEN Error(500, "feature_importances_ raised")
  ELSE
    LET importances == got.value
        features == IF reg.feature_names # None THEN names
                    ELSE [i \in DOMAIN importances |-> FeatureI(i - 1)]
        importance_dict == SortedDesc(Zip(features, importances))
    IN  Ok([importance |-> importance_dict,
            top_5 |-> FirstItems(importance_dict, TopN)])

FeatureImportance(reg, got) == FeatureImportanceOf(reg, got, TrainedFeatures)

feature_importance ==
  /\ phase = "serving"
  /\ service = "complete"
  /\ \E got \in ImportancesOf(xgb_model) :
       last' = [endpoint |-> "/api/features/importance",
                resp |-> FeatureImportance(Registry, got)]
  /\ HandlerKeepsRegistry
  /\ UNCHANGED <<service, files, phase>>

\* the columns a classifier of up to nine columns is trained on
KoiFeatures ==
  <<"koi_period", "koi_duration", "koi_depth", "koi_prad", "koi_teq", "koi_insol",
    "koi_steff", "koi_srad", "koi_model_snr">>

\* the arrays feature_importances_ can hold: one entry per column, ties included
ImportanceArrays ==
  UNION {[1..n -> 0..MaxImportance] : n \in 0..MaxFeatures}

\* the content of the two artifacts the answer is computed from: the array of
\* the classifier and the feature-name list, which names the same columns
ArtifactContents(importances) ==
  [p \in {XGB_MODEL_PATH, FEATURES_PATH} |->
     IF p = XGB_MODEL_PATH THEN importances
     ELSE SubSeq(KoiFeatures, 1, Len(importances))]

\* the same handler in a process whose artifacts hold the content kept in `files`
feature_importance_trained ==
  /\ phase = "serving"
  /\ service = "complete"
  /\ \E got \in (IF xgb_model = "fitted"
                 THEN {[raises |-> FALSE, value |-> files[XGB_MODEL_PATH]]}
                 ELSE ImportancesOf(xgb_model)) :
       last' = [endpoint |-> "/api/features/importance",
                resp |-> FeatureImportanceOf(Registry, got, files[FEATURES_PATH])]
  /\ HandlerKeepsRegistry
  /\ UNCHANGED <<service, files, phase>>

(***************************************************************************)
(* helli.py: the module-level load is outside any try block, and the one   *)
(* route is POST /predict.                                                 *)
(***************************************************************************)
\* lines 12-13 name the same two files as backend2.py
HelliPaths == {B2_XGB_PATH, B2_SCALER_PATH}

\* lines 11-13: an exception of load_model() or joblib.load() leaves the
\* import, and the interpreter exits before app.run() is reached
helli_load ==
  /\ phase = "startup"
  /\ service = "helli"
  /\ IF \A f \in HelliPaths : files[f] = "ok"
     THEN /\ phase' = "serving"
          /\ xgb_model' = "fitted"
          /\ scaler' = "loaded"
     ELSE /\ phase' = "crashed"
          /\ UNCHANGED <<xgb_model, scaler>>
  /\ UNCHANGED <<service, files, cnn_model, label_encoder, feature_names, last, first>>

required_features == <<"feature1", "feature2", "feature3">>

\* the body, how many of the required features it holds (from the first on),
\* and whether their values are text
HelliRequests ==
  {[body |-> b, held |-> 0, text |-> FALSE] : b \in {"invalid", "empty", "array"}}
    \cup {[body |-> "object", held |-> n, text |-> t] :
            n \in 0..Len(required_features), t \in BOOLEAN}

\* the means the scaler of exoplanet.pkl was fitted with
HelliScalerMean == <<7, 3, 5>>
HelliScalerTransform(row) == [i \in DOMAIN row |-> row[i] - HelliScalerMean[i]]

\* lines 17-41: one try block around the whole view
HelliPredict(req) ==
  IF req.body = "invalid" THEN Error(500, "400 Bad Request")
  ELSE IF req.body = "empty" THEN Error(500, "argument of type 'NoneType' is not iterable")
  ELSE IF req.body = "array" \/ req.held < Len(required_features)
  THEN Error(400, "Missing feature in request")
  ELSE IF req.text THEN Error(500, "scaler.transform raised")
  ELSE Ok([prediction |->
             <<XgbPredictProba(HelliScalerTransform([i \in DOMAIN required_features |-> i]))>>])

HelliPredictCalls(req) ==
  IF req.body # "object" \/ req.held < Len(required_features) THEN <<>>
  ELSE IF req.text THEN <<ArrayCall, TransformCall>>
  ELSE <<ArrayCall, TransformCall, PredictCall>>

helli_predict(req) ==
  /\ phase = "serving"
  /\ service = "helli"
  /\ last' = [endpoint |-> "/predict", req |-> req, resp |-> HelliPredict(req),
              calls |-> HelliPredictCalls(req)]
  /\ HandlerKeepsRegistry
  /\ UNCHANGED <<service, files, phase>>

(***************************************************************************)
(* The serving process: the state after the module has been imported, for  *)
(* every registry the start-up can leave. The handlers never read the      *)
(* artifact directory, so the serving specification does not carry it.     *)
(***************************************************************************)
NoDisk == <<>>

Init ==
  /\ service \in Services
  /\ \E d \in Disks(service) :
       /\ xgb_model = LoadResult(service, d).xgb_model
       /\ cnn_model = LoadResult(service, d).cnn_model
       /\ scaler = LoadResult(service, d).scaler
       /\ label_encoder = LoadResult(service, d).label_encoder
       /\ feature_names = LoadResult(service, d).feature_names
  /\ files = NoDisk
  /\ phase = "serving"
  /\ last = NoCall
  /\ first = NoCall

Next ==
  \/ \E req \in PredictRequests : predict_single(req) /\ UNCHANGED first
  \/ \E req \in BatchRequests : predict_batch(req) /\ UNCHANGED first
  \/ \E req \in FluxRequests : predict_flux(req) /\ UNCHANGED first
  \/ \E req \in FeatureRequests : predict_features(req) /\ UNCHANGED first
  \/ \E req \in FluxCsvRequests : predict_flux_csv(req) /\ UNCHANGED first
  \/ \E req \in FeatureCsvRequests : predict_features_csv(req) /\ UNCHANGED first
  \/ health_check /\ UNCHANGED first
  \/ model_info /\ UNCHANGED first
  \/ get_stats /\ UNCHANGED first
  \/ feature_importance /\ UNCHANGED first
  \/ get_examples /\ UNCHANGED first

Spec == Init /\ [][Next]_vars

(***************************************************************************)
(* Start-up alone, from every state of the artifact directory.             *)
(***************************************************************************)
NextLoad == load_models

SpecLoad == InitLoad /\ [][NextLoad]_vars

(***************************************************************************)
(* Repeated requests: an observer keeps one earlier request and its        *)
(* response while further requests are handled.                            *)
(***************************************************************************)
RepeatKeys == {TrainedFeatures, <<TrainedFeatures[1]>>, <<TrainedFeatures[2], TrainedFeatures[1]>>,
               <<FluxKey>>}

RepeatRequests ==
  {r \in PredictRequests :
     /\ r.body = "object"
     /\ r.model \in {"xgboost", "cnn"}
     /\ r.features.keys \in RepeatKeys
     /\ ~r.features.text}

\* the observer either notes the call handled before this one, or keeps what it
\* has noted and records that a further request has been handled since
Remember ==
  \/ /\ last.endpoint # "none"
     /\ first' = [endpoint |-> last.endpoint, req |-> last.req, resp |-> last.resp,
                  between |-> FALSE]
  \/ /\ first.endpoint = "none"
     /\ first' = first
  \/ /\ first.endpoint # "none"
     /\ first' = [first EXCEPT !.between = TRUE]

NextRepeat ==
  \E req \in RepeatRequests : predict_single(req) /\ Remember

SpecRepeat == Init /\ [][NextRepeat]_vars

(***************************************************************************)
(* The whole life of a process: the module-level load, then any sequence   *)
(* of requests. Concurrent requests interleave at the grain of one handler *)
(* run: a handler only reads the registry globals, so runs that overlap in *)
(* time see what runs in sequence see.                                     *)
(***************************************************************************)
LifeBatchRequests == {r \in BatchRequests : r.body = "object" /\ r.model = ModelAbsent}

StartServices == Services \cup {"helli"}

StartDisks(s) == IF s = "helli" THEN [HelliPaths -> FileStates] ELSE Disks(s)

InitLife ==
  /\ service \in StartServices
  /\ files \in StartDisks(service)
  /\ phase = "startup"
  /\ xgb_model = None /\ cnn_model = None /\ scaler = None
  /\ label_encoder = None /\ feature_names = None
  /\ last = NoCall /\ first = NoCall

NextLife ==
  \/ load_models
  \/ helli_load
  \/ \E req \in HelliRequests : helli_predict(req) /\ UNCHANGED first
  \/ \E req \in RepeatRequests : predict_single(req) /\ UNCHANGED first
  \/ \E req \in LifeBatchRequests : predict_batch(req) /\ UNCHANGED first
  \/ \E req \in FluxRequests : predict_flux(req) /\ UNCHANGED first
  \/ \E req \in FeatureRequests : predict_features(req) /\ UNCHANGED first
  \/ \E req \in FluxCsvRequests : predict_flux_csv(req) /\ UNCHANGED first
  \/ \E req \in FeatureCsvRequests : predict_features_csv(req) /\ UNCHANGED first
  \/ health_check /\ UNCHANGED first
  \/ model_info /\ UNCHANGED first
  \/ get_stats /\ UNCHANGED first
  \/ feature_importance /\ UNCHANGED first
  \/ get_examples /\ UNCHANGED first

SpecLife == InitLife /\ [][NextLife]_vars

(***************************************************************************)
(* Feature importance of any classifier: the serving process for every     *)
(* array of importances the loaded classifier can hold. The handler reads  *)
(* only xgb_model and feature_names, so the other artifacts are absent.    *)
(***************************************************************************)
ImportanceDisks ==
  {d \in Disks("complete") :
     \A p \in {CNN_MODEL_PATH_KERAS, CNN_MODEL_PATH_H5, SCALER_PATH, ENCODER_PATH} :
       d[p] = "absent"}

InitImportance ==
  /\ service = "complete"
  /\ \E d \in ImportanceDisks :
       /\ xgb_model = LoadResult(service, d).xgb_model
       /\ cnn_model = LoadResult(service, d).cnn_model
       /\ scaler = LoadResult(service, d).scaler
       /\ label_encoder = LoadResult(service, d).label_encoder
       /\ feature_names = LoadResult(service, d).feature_names
  /\ \E importances \in ImportanceArrays : files = ArtifactContents(importances)
  /\ phase = "serving"
  /\ last = NoCall
  /\ first = NoCall

NextImportance == feature_importance_trained /\ UNCHANGED first

SpecImportance == InitImportance /\ [][NextImportance]_vars

(***************************************************************************)
(* Properties.                                                             *)
(***************************************************************************)
\* the request handled last was POST /api/predict with a JSON object as body
PredictHandled == last.endpoint = "/api/predict" /\ last.req.body = "object"

\* the trained keys the request handled last does not supply
AbsentKeys == {k \in Range(TrainedFeatures) : k \notin Range(last.req.features.keys)}

NoDuplicates(seq) == \A i, j \in DOMAIN seq : seq[i] = seq[j] => i = j

MissingIsExact ==
  /\ last.resp.status = 400
  /\ "missing" \in last.resp.fields
  /\ Range(last.resp.missing) = AbsentKeys
  /\ NoDuplicates(last.resp.missing)
  /\ Range(last.resp.missing) \cap Range(last.req.features.keys) = {}

\* C1 as stated: every POST /api/predict request for model 'xgboost' whose features
\* lack a required key is answered 400 with `missing` listing exactly the absent
\* keys, whichever artifacts are loaded (a fallback list standing in for the
\* feature-name list when none was loaded).
C1_AsStated ==
  (PredictHandled /\ last.req.model = "xgboost" /\ AbsentKeys # {}) => MissingIsExact

\* C1 amended: while the tabular classifier slot is non-empty and a feature-name
\* list was loaded, a POST /api/predict request for model 'xgboost' whose non-empty
\* features mapping lacks a key of the loaded list is answered 400 with `missing`
\* listing exactly the absent keys: set-equal, no duplicates, no supplied key.
C1_MissingFeaturesExact ==
  (/\ PredictHandled
   /\ last.req.model = "xgboost"
   /\ last.req.features.keys # <<>>
   /\ AbsentKeys # {}
   /\ xgb_model # None
   /\ feature_names # None) => MissingIsExact

C1_Witness ==
  /\ PredictHandled
  /\ last.req.model = "xgboost"
  /\ last.req.features.keys = <<ExtraKey>>
  /\ feature_names # None
  /\ last.resp.status = 400
  /\ Len(last.resp.missing) = Len(TrainedFeatures)

\* C2 as stated: every POST /api/predict request whose `model` value is neither
\* 'xgboost' nor 'cnn' is answered 400 with an invalid-model error, never 500, in
\* every registry state and for every features payload.
C2_AsStated ==
  (PredictHandled /\ last.req.model \notin {ModelAbsent, "xgboost", "cnn"})
    => (last.resp.status = 400 /\ last.resp.error = "Invalid model type")

\* C3 as stated, where the sequence classifier is loaded: every POST /api/predict
\* request for model 'cnn' whose flux array is shorter or longer than the model's
\* input width is answered 400.
C3_AsStated ==
  (/\ PredictHandled
   /\ last.req.model = "cnn"
   /\ cnn_model # None
   /\ FluxKey \in Range(last.req.features.keys)
   /\ last.req.features.flux # FluxWidth) => last.resp.status = 400

\* the request handled last was POST /predict/flux carrying a flat flux_data list
FluxHandled ==
  last.endpoint = "/predict/flux" /\ last.req.body = "object" /\ last.req.flux >= 0

RejectedStatingLengths ==
  /\ last.resp.status = 400
  /\ last.resp.stated = <<3197, last.req.flux>>

\* C4 as stated: a POST /predict/flux request whose flux_data has a length other
\* than 3197 is rejected with 400 and a message stating the expected length 3197
\* and the received length.
C4_AsStated ==
  (FluxHandled /\ last.req.flux # 3197) => RejectedStatingLengths

\* C4 amended: while the CNN model slot is non-empty (always so in backend.py), a
\* POST /predict/flux request whose flux_data list has a length other than 3197 is
\* rejected with 400 and a message stating 3197 and the received length; in
\* backend2.py with no CNN model loaded it is answered 500 'CNN model is not loaded.'
C4_WrongLengthRejected ==
  (FluxHandled /\ last.req.flux # 3197)
    => /\ cnn_model # None => RejectedStatingLengths
       /\ cnn_model = None =>
            (last.resp.status = 500 /\ last.resp.error = "CNN model is not loaded.")

C4_Witness ==
  /\ FluxHandled
  /\ service = "backend2"
  /\ last.req.flux = 3196
  /\ last.resp.status = 400
  /\ last.resp.stated = <<3197, 3196>>

\* the request handled last was POST /api/predict/batch with a JSON object as body
\* and a string (or no) `model`
BatchHandled ==
  /\ last.endpoint = "/api/predict/batch"
  /\ last.req.body = "object"
  /\ last.req.model # ModelNumber

\* what POST /api/predict answers, in the current registry, to the i-th observation
\* of the batch handled last
SingleAnswer(i) ==
  PredictSingle([body |-> "object", model |-> last.req.model,
                 features |-> last.req.data[i]], Registry)

SamePrediction(a, b) ==
  /\ a.classification = b.classification
  /\ a.confidence = b.confidence
  /\ a.probabilities = b.probabilities

\* C5 as stated: POST /api/predict/batch with data = [f] returns a single prediction
\* whose classification, confidence and probabilities equal those POST /api/predict
\* returns for features = f and the same model, in the same registry state.
C5_AsStated ==
  (BatchHandled /\ Len(last.req.data) = 1 /\ SingleAnswer(1).status = 200)
    => /\ last.resp.status = 200
       /\ Len(last.resp.predictions) = 1
       /\ SamePrediction(last.resp.predictions[1], SingleAnswer(1))

\* C6 as stated: a POST /api/predict/batch request carrying a non-empty list of n
\* valid observations is answered 200 with `predictions` of length n, in the order
\* of the input, and `total` equal to n.
C6_AsStated ==
  (/\ BatchHandled
   /\ last.req.data # <<>>
   /\ \A i \in DOMAIN last.req.data : SingleAnswer(i).status = 200)
    => /\ last.resp.status = 200
       /\ Len(last.resp.predictions) = Len(last.req.data)
       /\ last.resp.total = Len(last.req.data)
       /\ \A i \in DOMAIN last.resp.predictions :
            SamePrediction(last.resp.predictions[i], SingleAnswer(i))

\* the request handled last supplies every trained feature
AllKeysSupplied == AbsentKeys = {}

\* a confidence is a percentage in hundredths of a percent
ConfidenceInRange == last.resp.confidence >= 0 /\ last.resp.confidence <= 100 * 100

\* C7 as stated: every POST /api/predict request for model 'xgboost' whose features
\* contain every required key is answered 200 with a classification of the
\* registered label set and a confidence between 0 and 100.
C7_AsStated ==
  (PredictHandled /\ last.req.model = "xgboost" /\ AllKeysSupplied)
    => /\ last.resp.status = 200
       /\ last.resp.classification \in Range(Classes)
       /\ ConfidenceInRange

\* C7 amended: while the tabular classifier is loaded from its file and either the
\* feature-name list is loaded or the mapping has exactly the classifier's number
\* of keys, a POST /api/predict request for model 'xgboost' whose features contain
\* every required key with numeric values is answered 200 with a confidence
\* between 0 and 100 and a classification that is a member of the label set when
\* the label encoder is loaded and the class index as a string when it is not.
C7_ValidTabularAnswered ==
  (/\ PredictHandled
   /\ last.req.model = "xgboost"
   /\ AllKeysSupplied
   /\ ~last.req.features.text
   /\ xgb_model = "fitted"
   /\ feature_names # None \/ Len(last.req.features.keys) = Len(TrainedFeatures))
    => /\ last.resp.status = 200
       /\ ConfidenceInRange
       /\ label_encoder # None => last.resp.classification \in Range(Classes)
       /\ label_encoder = None => last.resp.classification \in {"0", "1", "2"}

C7_Witness ==
  /\ PredictHandled
  /\ last.req.model = "xgboost"
  /\ last.req.features.keys = Append(TrainedFeatures, ExtraKey)
  /\ xgb_model = "fitted" /\ feature_names # None /\ label_encoder # None
  /\ last.resp.status = 200
  /\ last.resp.classification \in Range(Classes)

\* C8: in every 200 response of POST /api/predict, `confidence` equals the entry of
\* `probabilities` under the returned `classification`, and no entry of
\* `probabilities` is negative.
C8_ConfidenceIsChosenProbability ==
  (last.endpoint = "/api/predict" /\ last.resp.status = 200)
    => /\ last.resp.classification \in DOMAIN last.resp.probabilities
       /\ last.resp.confidence = last.resp.probabilities[last.resp.classification]
       /\ \A l \in DOMAIN last.resp.probabilities : last.resp.probabilities[l] >= 0

C8_Witness ==
  /\ last.endpoint = "/api/predict"
  /\ last.resp.status = 200
  /\ last.resp.model_used = "xgboost"
  /\ last.resp.classification = "CANDIDATE"
  /\ last.resp.confidence = 9123
  /\ last.resp.probabilities["CONFIRMED"] = 800

\* C9: a prediction request repeated after any number of other requests is given
\* the same status, classification and confidence as the first time.
C9_RepeatedRequestSameAnswer ==
  (first.endpoint # "none" /\ first.req = last.req)
    => /\ first.resp.status = last.resp.status
       /\ first.resp.classification = last.resp.classification
       /\ first.resp.confidence = last.resp.confidence

C9_Witness ==
  /\ first.endpoint # "none"
  /\ first.between
  /\ first.req = last.req
  /\ first.resp.status = 200
  /\ last.resp.status = 200
  /\ scaler # None
  /\ last.resp.model_used = "xgboost"

\* the artifact file load_models() reads for each slot
LoadedFrom(slot) ==
  IF slot = "xgb_model" THEN XGB_MODEL_PATH
  ELSE IF slot = "cnn_model" THEN CnnPath(files)
  ELSE IF slot = "scaler" THEN SCALER_PATH
  ELSE IF slot = "label_encoder" THEN ENCODER_PATH
  ELSE FEATURES_PATH

SlotNames == {"xgb_model", "cnn_model", "scaler", "label_encoder", "feature_names"}

\* C10 as stated: after load_models(), an artifact whose load raised has an empty
\* slot, and every artifact whose file is present and loadable is loaded, whatever
\* happened to the others.
C10_AsStated ==
  (phase = "serving" /\ service = "complete")
    => \A slot \in SlotNames :
         LoadedFrom(slot) # None =>
           /\ files[LoadedFrom(slot)] = "ok" =>
                Registry[slot] \in {"loaded", "fitted"}
           /\ files[LoadedFrom(slot)] = "corrupt" => Registry[slot] = None

\* C11: once the start-up load has completed, no step of the process changes a
\* registry slot (xgb_model, cnn_model, scaler, label_encoder, feature_names):
\* no request handler, in any order of requests, writes or reloads one.
C11_RegistryWriteOnce ==
  [][phase = "serving" => UNCHANGED slots]_vars

C11_Witness ==
  /\ phase = "serving"
  /\ last.endpoint = "/api/predict"
  /\ last.resp.status = 200
  /\ Registry = LoadResult(service, files)
  /\ xgb_model = "fitted" /\ scaler # None /\ cnn_model # None

\* the request handled last went to a prediction endpoint and the model artifact
\* it needs is absent: /api/predict with a non-empty features mapping for the
\* model it names, an upload of a table for the CSV endpoints
NeededModelAbsent ==
  \/ /\ PredictHandled
     /\ last.req.features.keys # <<>>
     /\ \/ last.req.model \in {ModelAbsent, "xgboost", "XGBoost"} /\ xgb_model = None
        \/ last.req.model = "cnn" /\ cnn_model = None
  \/ /\ service = "backend2"
     /\ \/ last.endpoint = "/predict/flux" /\ cnn_model = None
        \/ last.endpoint = "/predict/flux/csv" /\ last.req.file = "table" /\ cnn_model = None
        \/ last.endpoint = "/predict/features" /\ xgb_model = None
        \/ last.endpoint = "/predict/features/csv" /\ last.req.file = "table"
             /\ xgb_model = None

ModelNotLoadedErrors ==
  {"XGBoost model not loaded", "CNN model not loaded", "CNN model is not loaded.",
   "XGBoost model or scaler is not loaded."}

\* C12 as stated, for the endpoints of backend2.py: a request whose needed model
\* artifact is absent fails with a model-not-loaded error, and the handler has
\* made no call that parses the input into an array or table, no scaler
\* transform and no inference call for it.
C12_AsStated ==
  (NeededModelAbsent /\ service = "backend2")
    => /\ last.resp.status = 500
       /\ last.resp.error \in ModelNotLoadedErrors
       /\ last.calls = <<>>

\* the messages of the exceptions an inference call raises, as the handlers
\* word them (str(e), in places behind a fixed prefix)
InferenceErrors ==
  {"xgb_model.predict raised", "cnn_model.predict raised",
   "Error during prediction: xgb_model.predict raised",
   "Error during prediction: cnn_model.predict raised",
   "Error processing CSV file: xgb_model.predict raised",
   "Error processing CSV file: cnn_model.predict raised"}

\* the request handled last ended in an inference call that raised
InferenceRaised ==
  /\ last.endpoint \in {"/api/predict", "/predict/flux", "/predict/features",
                        "/predict/flux/csv", "/predict/features/csv"}
  /\ last.calls # <<>>
  /\ last.calls[Len(last.calls)] \in InferenceCalls
  /\ "error" \in last.resp.fields
  /\ last.resp.error \in InferenceErrors

\* C13 as stated: an exception raised by a model's inference call while a
\* prediction request is handled is answered with HTTP 500 and an `error`
\* member carrying the exception's message.
C13_AsStated ==
  InferenceRaised => last.resp.status = 500

PredictionEndpoints ==
  {"/api/predict", "/api/predict/batch", "/predict", "/predict/flux", "/predict/features",
   "/predict/flux/csv", "/predict/features/csv"}

\* C14 as stated: a failure to load artifacts at start-up never ends the
\* process; with no artifact loaded the service is up, GET /health is answered
\* 200 and prediction requests are answered with an error.
C14_AsStated ==
  /\ phase # "crashed"
  /\ (phase = "serving" /\ Registry = EmptyRegistry) =>
       /\ last.endpoint = "/health" => last.resp.status = 200
       /\ last.endpoint \in PredictionEndpoints => last.resp.status >= 400

\* the request handled last went to an endpoint that reads a JSON body, and its
\* body is absent, not JSON, or a JSON array (the outcome that depends on the
\* installed Flask, "unsupported", is left aside)
MalformedBody ==
  /\ last.endpoint \in {"/api/predict", "/api/predict/batch", "/predict/flux",
                        "/predict/features", "/predict"}
  /\ last.req.body \in {"absent", "invalid", "array"}

\* C15 as stated: a prediction request whose body is absent, is not JSON or is
\* not a JSON object is answered with an HTTP 4xx status and a JSON body holding
\* an `error` member, never with 5xx and never with a body that is not JSON.
C15_AsStated ==
  MalformedBody
    => /\ last.resp.status \in 400..499
       /\ "error" \in last.resp.fields

\* C16: GET /health is answered 200 with status 'healthy' in every registry
\* state, and xgb_loaded, cnn_loaded and scaler_loaded are true exactly when the
\* slot of that name is non-empty.
C16_HealthMirrorsRegistry ==
  last.endpoint = "/health"
    => /\ last.resp.status = 200
       /\ last.resp.body.status = "healthy"
       /\ last.resp.body.xgb_loaded <=> xgb_model # None
       /\ last.resp.body.cnn_loaded <=> cnn_model # None
       /\ last.resp.body.scaler_loaded <=> scaler # None

C16_Witness ==
  /\ last.endpoint = "/health"
  /\ last.resp.status = 200
  /\ xgb_model # None /\ cnn_model = None /\ scaler # None
  /\ last.resp.body.xgb_loaded
  /\ ~last.resp.body.cnn_loaded
  /\ last.resp.body.scaler_loaded

\* C17: GET /api/features/importance is answered 500 with an `error` member
\* whenever the tabular classifier slot is empty, and 200 with `importance` and
\* `top_5` whenever the classifier has been loaded from its file.
C17_ImportanceNeedsClassifier ==
  last.endpoint = "/api/features/importance"
    => /\ xgb_model = None =>
            (last.resp.status = 500 /\ "error" \in last.resp.fields)
       /\ xgb_model = "fitted" =>
            /\ last.resp.status = 200
            /\ {"importance", "top_5"} \subseteq last.resp.fields
            /\ Len(last.resp.body.importance) = Len(FeatureImportances)

C17_Witness ==
  /\ last.endpoint = "/api/features/importance"
  /\ xgb_model = "fitted"
  /\ feature_names # None
  /\ last.resp.status = 200
  /\ last.resp.body.importance = <<<<"koi_duration", 70>>, <<"koi_period", 30>>>>
  /\ last.resp.body.top_5 = last.resp.body.importance

\* the request handled last is on a tabular path: POST /api/predict for the
\* tabular model, or POST /predict/features
TabularHandled ==
  \/ PredictHandled /\ last.req.model \in {ModelAbsent, "xgboost", "XGBoost"}
  \/ last.endpoint = "/predict/features" /\ last.req.body = "object"

\* it supplies every trained feature with a numeric value, and nothing else
\* where no feature-name list tells the handler which columns to keep
ValidTabular ==
  /\ TabularHandled
  /\ AllKeysSupplied
  /\ ~last.req.features.text
  /\ \/ last.endpoint = "/predict/features"
     \/ feature_names # None
     \/ Len(last.req.features.keys) = Len(TrainedFeatures)

Count(seq, x) == Cardinality({i \in DOMAIN seq : seq[i] = x})

\* the transform is called exactly once, and before every inference call
TransformedOnceBefore(calls) ==
  /\ Count(calls, TransformCall) = 1
  /\ \A i, j \in DOMAIN calls :
       (calls[i] = TransformCall /\ calls[j] \in InferenceCalls) => i < j

\* the row of the request handled last, as the handler orders it
RawRow == Row(last.req.features, Columns(last.req.features, Registry))

\* C18 as stated: on every tabular path a valid request handled while the
\* scaler slot is empty and the classifier is loaded is still served.
C18_AsStated ==
  (ValidTabular /\ scaler = None /\ xgb_model = "fitted") => last.resp.status = 200

\* C18 amended: on POST /api/predict the scaler is optional: a valid tabular
\* request handled while the scaler slot is empty and the classifier is loaded
\* from its file is answered 200 from the raw values, with no transform called;
\* on POST /predict/features of backend2.py and backend.py an empty scaler slot
\* is answered 500 'XGBoost model or scaler is not loaded.'. On every tabular
\* path, a request that reaches the classifier while a scaler is loaded has had
\* the transform called exactly once, before the inference call.
C18_ScalerOptionalOnApiPredict ==
  /\ (ValidTabular /\ PredictHandled /\ scaler = None /\ xgb_model = "fitted")
       => /\ last.resp.status = 200
          /\ TransformCall \notin Range(last.calls)
          /\ last.resp.confidence = Confidence(XgbPredictProba(RawRow), XgbPredict(RawRow))
  /\ (TabularHandled /\ last.endpoint = "/predict/features" /\ scaler = None)
       => /\ last.resp.status = 500
          /\ last.resp.error = "XGBoost model or scaler is not loaded."
          /\ last.calls = <<>>
  /\ (TabularHandled /\ Range(last.calls) \cap InferenceCalls # {})
       => /\ scaler # None => TransformedOnceBefore(last.calls)
          /\ scaler = None => TransformCall \notin Range(last.calls)
  /\ (ValidTabular /\ PredictHandled /\ scaler # None /\ last.resp.status = 200)
       => last.resp.confidence =
            Confidence(XgbPredictProba(ScalerTransform(RawRow)),
                       XgbPredict(ScalerTransform(RawRow)))

C18_Witness ==
  /\ PredictHandled
  /\ ValidTabular
  /\ scaler = None
  /\ xgb_model = "fitted"
  /\ last.resp.status = 200
  /\ last.calls = <<DataFrameCall, PredictCall, PredictProbaCall>>

\* POST /api/predict was handled on its tabular path and the classifier was invoked
ClassifierInvoked ==
  /\ PredictHandled
  /\ last.req.model \in {ModelAbsent, "xgboost", "XGBoost"}
  /\ PredictCall \in Range(last.calls)

\* C19 as stated, for the requests that are answered 200: whenever POST
\* /api/predict invokes the tabular classifier, the row it hands over has its
\* columns in exactly the trained feature order, whatever the order of the
\* request's keys and without its untrained keys, in every registry state, also
\* with no feature-name list loaded.
C19_AsStated ==
  (ClassifierInvoked /\ last.resp.status = 200)
    => Columns(last.req.features, Registry) = TrainedFeatures

\* the request handled last by POST /api/predict has a shape the model it names
\* cannot take: a trained key is missing, or the flux series has another
\* length than the input width
WrongShape ==
  /\ PredictHandled
  /\ \/ /\ last.req.model \in {ModelAbsent, "xgboost", "XGBoost"}
        /\ last.req.features.keys # <<>>
        /\ AbsentKeys # {}
     \/ /\ last.req.model = "cnn"
        /\ FluxKey \in Range(last.req.features.keys)
        /\ last.req.features.flux # FluxWidth

\* C20 as stated: POST /api/predict checks the shape of a request before any
\* inference call, so a request with a missing required feature key or with a
\* flux series of the wrong length never reaches predict or predict_proba.
C20_AsStated ==
  WrongShape => Range(last.calls) \cap InferenceCalls = {}

\* backend.py has handled a request whose input passes every test the handler
\* makes before it uses a model handle
BackendValidated ==
  /\ service = "backend"
  /\ last.endpoint \in {"/predict/flux", "/predict/features"}
  /\ last.req.body = "object"
  /\ last.endpoint = "/predict/flux" => last.req.flux = FluxWidth
  /\ last.endpoint = "/predict/features" => AllKeysSupplied

BackendNotLoadedAnswered ==
  /\ service = "backend"
  /\ last.endpoint \in {"/predict/flux", "/predict/features"}
  /\ "error" \in last.resp.fields
  /\ last.resp.error \in ModelNotLoadedErrors

\* C21 as stated: in backend.py every request that passes input validation
\* ends in the inference error branch ('Error during prediction: ...').
C21_AsStated ==
  BackendValidated
    => /\ last.resp.status = 500
       /\ last.resp.error \in
            {"Error during prediction: 'str' object has no attribute 'predict'",
             "Error during prediction: xgb_model.predict raised",
             "Error during prediction: cnn_model.predict raised"}

\* C21 amended: in backend.py, once the module is imported, cnn_model, xgb_model
\* and xgb_scaler are never None, no request is answered by a 'model is not
\* loaded' branch, and every request that passes input validation is answered
\* 500 without an inference call: POST /predict/flux by the inference error
\* branch ('Error during prediction'), POST /predict/features by the
\* preprocessing error branch ('Error during preprocessing'), where
\* xgb_scaler.transform is looked up on the path string first.
C21_BackendHandlesNeverNone ==
  (service = "backend" /\ phase = "serving")
    => /\ cnn_model # None /\ xgb_model # None /\ scaler # None
       /\ ~BackendNotLoadedAnswered
       /\ BackendValidated =>
            /\ last.resp.status = 500
            /\ Range(last.calls) \cap InferenceCalls = {}
            /\ last.endpoint = "/predict/flux" =>
                 last.resp.error =
                   "Error during prediction: 'str' object has no attribute 'predict'"
            /\ last.endpoint = "/predict/features" =>
                 last.resp.error =
                   "Error during preprocessing: 'str' object has no attribute 'transform'"

C21_Witness ==
  /\ BackendValidated
  /\ phase = "serving"
  /\ last.endpoint = "/predict/features"
  /\ xgb_model = "path" /\ scaler = "path"
  /\ last.resp.status = 500
  /\ last.calls = <<DataFrameCall>>

\* GET /api/features/importance was answered 200
ImportanceAnswered ==
  last.endpoint = "/api/features/importance" /\ last.resp.status = 200

Names(items) == {items[i][1] : i \in DOMAIN items}

\* C22: in a 200 answer of GET /api/features/importance, `top_5` holds exactly
\* min(5, n) of the n features of `importance`, each with the value it has in
\* `importance`, and no feature left out of `top_5` has a larger importance
\* than a feature in it.
C22_TopFiveAreTheLargest ==
  ImportanceAnswered =>
    LET importance == last.resp.body.importance
        top_5 == last.resp.body.top_5
        n == Cardinality(Names(importance))
    IN  /\ n = Len(importance)
        /\ Cardinality(Names(top_5)) = Len(top_5)
        /\ Len(top_5) = (IF n < 5 THEN n ELSE 5)
        /\ \A i \in DOMAIN top_5 : \E j \in DOMAIN importance : importance[j] = top_5[i]
        /\ \A i \in DOMAIN top_5 : \A j \in DOMAIN importance :
             importance[j][1] \notin Names(top_5) => top_5[i][2] >= importance[j][2]

C22_Witness ==
  /\ ImportanceAnswered
  /\ feature_names # None
  /\ files[XGB_MODEL_PATH] = <<0, 2, 1, 2, 0, 1>>
  /\ Len(last.resp.body.importance) = 6
  /\ last.resp.body.top_5 =
       <<<<"koi_duration", 2>>, <<"koi_prad", 2>>, <<"koi_depth", 1>>,
         <<"koi_insol", 1>>, <<"koi_period", 0>>>>

====
